---------------------------- MODULE Spec2Model ----------------------------
(***************************************************************************)
(* A model of common/src/comp/ability.rs: the gate                         *)
(* (CharacterAbility::requirements_paid), the compiler                     *)
(* (From<&CharacterAbility> for CharacterState), the staged execution of  *)
(* the compiled character state, the item configuration (From<Item> for   *)
(* ItemConfig) and the Loadout with its accessors.                         *)
(*                                                                         *)
(* Numbers.  u32 and i32 are modelled as unsigned and two's-complement     *)
(* signed words of WordBits bits (TLC's integers are 32-bit, so the casts  *)
(* and the wrap-around are kept and the width is scaled down).  Durations  *)
(* are whole time units.  f32 values are whole numbers of a fixed unit.    *)
(***************************************************************************)
EXTENDS Integers, Naturals, Sequences, FiniteSets, TLC

VARIABLES
    ability,        \* the CharacterAbility the operation is applied to
    data,           \* JoinData: physics.on_ground, body, vel
    energy,         \* update.energy: [current, maximum]
    energy_before,  \* update.energy when requirements_paid was called
    paid,           \* outcome of requirements_paid: "none" until it has run
    character,      \* the CharacterState the ability was compiled to
    compiled_state, \* character as CharacterState::from returned it
    status,         \* "select", then "running", "terminal", "aborted" or
                    \* "panic"
    effects,        \* primary effects emitted since the state was compiled
    loops,          \* Action stages begun (a spin's repetition begins one)
    stage_flips,    \* times exhausted went from false to true in the
                    \* current Action stage
    tick_parity,    \* parity of the number of ticks applied
    loadout,        \* the Loadout: one Option per slot
    armor,          \* what get_armor returned, and the calls since the last
                    \* slot change
    reduction,      \* what get_damage_reduction returned, and the calls
                    \* since the last slot change
    item,           \* the Item an ItemConfig is built from
    item_config,    \* the ItemConfig built from item
    ability_type,   \* the CharacterAbilityType character was classified as
    manager,        \* the TooltipManager
    reported,       \* the region the hover reports have named without a
                    \* break, and for how long
    seen,           \* the region maintain has seen reported without a break,
                    \* and for how long
    reports_left,   \* hover reports still to come
    map_size_lg,    \* MapSizeLg: the base 2 logarithms of the map's sides
    conv,           \* a chunk index or position, followed by the results of
                    \* the conversions applied to it
    posi,           \* the chunk index neighbors is called with
    neighbor_out    \* what neighbors(map_size_lg, posi) yielded

vars ==
    <<ability, data, energy, energy_before, paid, character, compiled_state,
      status, effects, loops, stage_flips, tick_parity, loadout, armor,
      reduction, item, item_config, ability_type, manager, reported, seen,
      reports_left, map_size_lg, conv, posi, neighbor_out>>

gate_vars == <<ability, data, energy, energy_before, paid>>
exec_vars ==
    <<character, compiled_state, status, effects, loops, stage_flips,
      tick_parity>>
loadout_vars == <<loadout, armor, reduction>>
item_vars == <<item, item_config>>
type_vars == <<ability_type>>
tooltip_vars == <<manager, reported, seen, reports_left>>
terrain_vars == <<map_size_lg, conv, posi, neighbor_out>>
rest_vars == <<type_vars, tooltip_vars, terrain_vars>>

----------------------------------------------------------------------------
(* Bounds of the model *)

\* width of the model's u32 / i32 words
WordBits == 9
\* update.energy.maximum
MaxEnergy == 224
\* configured energy costs are drawn from 0..MaxCost, from the MaxCost+1
\* values below and at the top of the u32 range, and from around i32::MAX
MaxCost == 2
\* the horizontal velocity components are drawn from 0..MaxVel (half units)
MaxVel == 2
\* configured durations are drawn from 0..MaxDur
MaxDur == 2
\* a tick supplies an elapsed time in 1..MaxDt
MaxDt == 2
\* configured num_spins are drawn from 0..MaxSpins
MaxSpins == 3
\* a combo's stage list has at most MaxStages stages
MaxStages == 3
\* an input-held spin is followed for at most MaxLoops Action stages
MaxLoops == 3
\* at most MaxPieces slots of a loadout are occupied at a time
MaxPieces == 2
\* armor protections are drawn from -MaxProtection and MaxProtection
MaxProtection == 2
\* the accessors are called at most MaxCalls times between two slot changes
MaxCalls == 2
\* a tool declares at most MaxAbilities abilities
MaxAbilities == 6

----------------------------------------------------------------------------
(* Machine words *)

Pow2(n) == 2 ^ n

U32Max == Pow2(WordBits) - 1
I32Max == Pow2(WordBits - 1) - 1
I32Min == -Pow2(WordBits - 1)

\* `x as i32` for x : u32 (two's-complement reinterpretation)
AsI32(x) == IF x > I32Max THEN x - Pow2(WordBits) ELSE x

\* unary minus on i32: -i32::MIN overflows, which panics in a build with
\* overflow checks and wraps to i32::MIN without them
Val(v) == [panic |-> FALSE, value |-> v]
Panic == [panic |-> TRUE, value |-> 0]
NegI32(i) == IF i = I32Min THEN {Panic, Val(I32Min)} ELSE {Val(-i)}

\* a - b on u32: an underflow panics in a build with overflow checks and
\* wraps without them
SubU32(a, b) == IF a >= b THEN {Val(a - b)} ELSE {Panic, Val(a - b + Pow2(WordBits))}

\* `n as u32` for n : usize
AsU32(n) == n % Pow2(WordBits)

----------------------------------------------------------------------------
(* Energy: the resource ledger *)

\* Energy::try_change_by(amount, cause): fails when the result would leave
\* 0..maximum, applies the amount otherwise
TryChangeBy(en, amount) ==
    IF en.current + amount < 0 \/ en.current + amount > en.maximum
    THEN [ok |-> FALSE, energy |-> en]
    ELSE [ok |-> TRUE, energy |-> [en EXCEPT !.current = @ + amount]]

----------------------------------------------------------------------------
(* CharacterAbility: the catalog entries.  Durations are whole time units, *)
(* f32 fields whole numbers of a fixed unit; the fields an operation does  *)
(* not read carry one representative value.                                *)

BasicMelee(ec, bd, rd) ==
    [kind |-> "BasicMelee", energy_cost |-> ec, buildup_duration |-> bd,
     recover_duration |-> rd, base_healthchange |-> -5, knockback |-> 1,
     range |-> 3, max_angle |-> 30]

BasicRanged(ec, hold, pd, rd) ==
    [kind |-> "BasicRanged", energy_cost |-> ec, holdable |-> hold,
     prepare_duration |-> pd, recover_duration |-> rd,
     projectile |-> "Arrow", projectile_body |-> "ArrowBody",
     projectile_light |-> "None", projectile_gravity |-> "None",
     projectile_speed |-> 10]

Boost(d, up) == [kind |-> "Boost", duration |-> d, only_up |-> up]

DashMelee(ec, bd, cd, sd, rd, inf) ==
    [kind |-> "DashMelee", energy_cost |-> ec, base_damage |-> 1,
     max_damage |-> 2, base_knockback |-> 1, max_knockback |-> 2,
     range |-> 3, angle |-> 30, energy_drain |-> 1, forward_speed |-> 2,
     buildup_duration |-> bd, charge_duration |-> cd, swing_duration |-> sd,
     recover_duration |-> rd, infinite_charge |-> inf,
     is_interruptible |-> FALSE]

BasicBlock == [kind |-> "BasicBlock"]

Roll == [kind |-> "Roll"]

\* combo_melee::Stage
Stage(n, bd, sd, rd) ==
    [stage |-> n, base_buildup_duration |-> bd, base_swing_duration |-> sd,
     base_recover_duration |-> rd]

ComboMelee(stages) ==
    [kind |-> "ComboMelee", stage_data |-> stages, initial_energy_gain |-> 1,
     max_energy_gain |-> 3, energy_increase |-> 1, speed_increase |-> 3,
     max_speed_increase |-> 5, is_interruptible |-> FALSE]

LeapMelee(ec, md, bd, rd) ==
    [kind |-> "LeapMelee", energy_cost |-> ec, movement_duration |-> md,
     buildup_duration |-> bd, recover_duration |-> rd, leap_speed |-> 2,
     leap_vert_speed |-> 1, base_damage |-> 1, knockback |-> 1, range |-> 3]

SpinMelee(ec, bd, sd, rd, inf, n) ==
    [kind |-> "SpinMelee", buildup_duration |-> bd, swing_duration |-> sd,
     recover_duration |-> rd, base_damage |-> 1, knockback |-> 1,
     range |-> 3, energy_cost |-> ec, is_infinite |-> inf,
     is_helicopter |-> FALSE, is_interruptible |-> FALSE,
     forward_speed |-> 2, num_spins |-> n]

ChargedRanged(ec, pd, cd, rd) ==
    [kind |-> "ChargedRanged", energy_cost |-> ec, energy_drain |-> 1,
     initial_damage |-> 1, max_damage |-> 2, initial_knockback |-> 1,
     max_knockback |-> 2, prepare_duration |-> pd, charge_duration |-> cd,
     recover_duration |-> rd, projectile_body |-> "ArrowBody",
     projectile_light |-> "None", projectile_gravity |-> "None",
     initial_projectile_speed |-> 5, max_projectile_speed |-> 10]

GroundShockwave(ec, bd, rd, sd, rg) ==
    [kind |-> "GroundShockwave", energy_cost |-> ec, buildup_duration |-> bd,
     recover_duration |-> rd, damage |-> 1, knockback |-> 1,
     shockwave_angle |-> 30, shockwave_speed |-> 2,
     shockwave_duration |-> sd, requires_ground |-> rg]

----------------------------------------------------------------------------
(* The gate: CharacterAbility::requirements_paid *)

\* Body::is_humanoid
IsHumanoid(body) == body = "Humanoid"

\* Vec2::magnitude_squared; the components are in half units, so the result
\* is in quarter units
MagnitudeSquared(v) == v.x * v.x + v.y * v.y

\* the 0.5 the squared horizontal speed must exceed, in quarter units
RollSpeedSq == 2

\* the energy a roll takes
RollCost == 220

Outcome(r) == [paid |-> IF r.ok THEN "true" ELSE "false", energy |-> r.energy]

\* RollPaid with the energy taken before the physical conditions are looked at
RollPaid_DebitFirst(d, en) ==
    LET r == TryChangeBy(en, -RollCost)
    IN  {[paid |-> IF r.ok
                      /\ d.physics.on_ground
                      /\ IsHumanoid(d.body)
                      /\ MagnitudeSquared(d.vel) > RollSpeedSq
                   THEN "true" ELSE "false",
          energy |-> r.energy]}

\* RollPaid with >= for the speed test
RollPaid_SpeedGe(d, en) ==
    IF d.physics.on_ground
       /\ IsHumanoid(d.body)
       /\ MagnitudeSquared(d.vel) >= RollSpeedSq
    THEN {Outcome(TryChangeBy(en, -RollCost))}
    ELSE {[paid |-> "false", energy |-> en]}

\* the Roll arm: the conditions short-circuit, so energy is only touched
\* when the three physical conditions hold
RollPaid(d, en) ==
    IF d.physics.on_ground
       /\ IsHumanoid(d.body)
       /\ MagnitudeSquared(d.vel) > RollSpeedSq
    THEN {Outcome(TryChangeBy(en, -RollCost))}
    ELSE {[paid |-> "false", energy |-> en]}

\* the arms that take energy_cost:
\* update.energy.try_change_by(-(*energy_cost as i32), ..).is_ok()
EnergyCostPaid(energy_cost, en) ==
    {IF amount.panic
     THEN [paid |-> "panic", energy |-> en]
     ELSE Outcome(TryChangeBy(en, amount.value)) :
        amount \in NegI32(AsI32(energy_cost))}

\* OtherPaid taking the roll's energy as well
OtherPaid_Debit(en) == {Outcome(TryChangeBy(en, -RollCost))}

\* the `_ => true` arm
OtherPaid(en) == {[paid |-> "true", energy |-> en]}

EnergyGated ==
    {"DashMelee", "BasicMelee", "BasicRanged", "LeapMelee", "SpinMelee",
     "ChargedRanged", "GroundShockwave"}

\* the outcomes of requirements_paid(&self, data, update)
RequirementsPaidOutcomes(self, d, en) ==
    IF self.kind = "Roll" THEN RollPaid(d, en)
    ELSE IF self.kind \in EnergyGated THEN EnergyCostPaid(self.energy_cost, en)
    ELSE OtherPaid(en)

----------------------------------------------------------------------------
(* The compiler: From<&CharacterAbility> for CharacterState *)

\* no character state has been built yet
NoCharacter == [kind |-> "None"]

\* the conversion panicked
PanicState == [kind |-> "Panic"]

StageBuildup == "Buildup"
StageCharge == "Charge"
StageAction == "Action"
StageRecovery == "Recovery"

\* Duration::default()
DurationDefault == 0

\* Duration::from_millis(500)
RollDuration == 500

\* BasicMeleeState built already exhausted
BasicMeleeState_Exhausted(a) ==
    [kind |-> "BasicMelee", exhausted |-> TRUE,
     buildup_duration |-> a.buildup_duration,
     recover_duration |-> a.recover_duration,
     base_healthchange |-> a.base_healthchange, knockback |-> a.knockback,
     range |-> a.range, max_angle |-> a.max_angle]

BasicMeleeState(a) ==
    [kind |-> "BasicMelee", exhausted |-> FALSE,
     buildup_duration |-> a.buildup_duration,
     recover_duration |-> a.recover_duration,
     base_healthchange |-> a.base_healthchange, knockback |-> a.knockback,
     range |-> a.range, max_angle |-> a.max_angle]

\* BasicRangedState with the prepare timer started at the prepare duration
BasicRangedState_TimerSet(a) ==
    [kind |-> "BasicRanged", exhausted |-> FALSE,
     prepare_timer |-> a.prepare_duration, holdable |-> a.holdable,
     prepare_duration |-> a.prepare_duration,
     recover_duration |-> a.recover_duration, projectile |-> a.projectile,
     projectile_body |-> a.projectile_body,
     projectile_light |-> a.projectile_light,
     projectile_gravity |-> a.projectile_gravity,
     projectile_speed |-> a.projectile_speed]

BasicRangedState(a) ==
    [kind |-> "BasicRanged", exhausted |-> FALSE,
     prepare_timer |-> DurationDefault, holdable |-> a.holdable,
     prepare_duration |-> a.prepare_duration,
     recover_duration |-> a.recover_duration, projectile |-> a.projectile,
     projectile_body |-> a.projectile_body,
     projectile_light |-> a.projectile_light,
     projectile_gravity |-> a.projectile_gravity,
     projectile_speed |-> a.projectile_speed]

BoostState(a) ==
    [kind |-> "Boost", duration |-> a.duration, only_up |-> a.only_up]

\* DashMeleeState with infinite_charge set whatever the entry says
DashMeleeState_InfiniteCharge(a) ==
    [kind |-> "DashMelee",
     static_data |->
        [base_damage |-> a.base_damage, max_damage |-> a.max_damage,
         base_knockback |-> a.base_knockback,
         max_knockback |-> a.max_knockback, range |-> a.range,
         angle |-> a.angle, energy_drain |-> a.energy_drain,
         forward_speed |-> a.forward_speed,
         infinite_charge |-> TRUE,
         buildup_duration |-> a.buildup_duration,
         charge_duration |-> a.charge_duration,
         swing_duration |-> a.swing_duration,
         recover_duration |-> a.recover_duration,
         is_interruptible |-> a.is_interruptible],
     end_charge |-> FALSE, timer |-> DurationDefault,
     stage_section |-> StageBuildup, exhausted |-> FALSE]

DashMeleeState(a) ==
    [kind |-> "DashMelee",
     static_data |->
        [base_damage |-> a.base_damage, max_damage |-> a.max_damage,
         base_knockback |-> a.base_knockback,
         max_knockback |-> a.max_knockback, range |-> a.range,
         angle |-> a.angle, energy_drain |-> a.energy_drain,
         forward_speed |-> a.forward_speed,
         infinite_charge |-> a.infinite_charge,
         buildup_duration |-> a.buildup_duration,
         charge_duration |-> a.charge_duration,
         swing_duration |-> a.swing_duration,
         recover_duration |-> a.recover_duration,
         is_interruptible |-> a.is_interruptible],
     end_charge |-> FALSE, timer |-> DurationDefault,
     stage_section |-> StageBuildup, exhausted |-> FALSE]

BasicBlockState == [kind |-> "BasicBlock"]

\* RollState that takes the character as having been wielding
RollState_Wielded ==
    [kind |-> "Roll", remaining_duration |-> RollDuration,
     was_wielded |-> TRUE]

RollState ==
    [kind |-> "Roll", remaining_duration |-> RollDuration,
     was_wielded |-> FALSE]

\* ComboMeleeState with the stage counter starting at 0
ComboMeleeState_StageZero(a) ==
    [kind |-> "ComboMelee",
     static_data |->
        [num_stages |-> AsU32(Len(a.stage_data)),
         stage_data |-> a.stage_data,
         initial_energy_gain |-> a.initial_energy_gain,
         max_energy_gain |-> a.max_energy_gain,
         energy_increase |-> a.energy_increase,
         speed_increase |-> 1 - a.speed_increase,
         max_speed_increase |-> a.max_speed_increase - 1,
         is_interruptible |-> a.is_interruptible],
     stage |-> 0, combo |-> 0, timer |-> DurationDefault,
     stage_section |-> StageBuildup, next_stage |-> FALSE]

\* ComboMeleeState with the speed parameters copied as configured
ComboMeleeState_SpeedVerbatim(a) ==
    [kind |-> "ComboMelee",
     static_data |->
        [num_stages |-> AsU32(Len(a.stage_data)),
         stage_data |-> a.stage_data,
         initial_energy_gain |-> a.initial_energy_gain,
         max_energy_gain |-> a.max_energy_gain,
         energy_increase |-> a.energy_increase,
         speed_increase |-> a.speed_increase,
         max_speed_increase |-> a.max_speed_increase,
         is_interruptible |-> a.is_interruptible],
     stage |-> 1, combo |-> 0, timer |-> DurationDefault,
     stage_section |-> StageBuildup, next_stage |-> FALSE]

ComboMeleeState(a) ==
    [kind |-> "ComboMelee",
     static_data |->
        [num_stages |-> AsU32(Len(a.stage_data)),
         stage_data |-> a.stage_data,
         initial_energy_gain |-> a.initial_energy_gain,
         max_energy_gain |-> a.max_energy_gain,
         energy_increase |-> a.energy_increase,
         speed_increase |-> 1 - a.speed_increase,
         max_speed_increase |-> a.max_speed_increase - 1,
         is_interruptible |-> a.is_interruptible],
     stage |-> 1, combo |-> 0, timer |-> DurationDefault,
     stage_section |-> StageBuildup, next_stage |-> FALSE]

LeapMeleeState(a) ==
    [kind |-> "LeapMelee", initialize |-> TRUE, exhausted |-> FALSE,
     movement_duration |-> a.movement_duration,
     buildup_duration |-> a.buildup_duration,
     recover_duration |-> a.recover_duration, leap_speed |-> a.leap_speed,
     leap_vert_speed |-> a.leap_vert_speed, base_damage |-> a.base_damage,
     knockback |-> a.knockback, range |-> a.range]

\* spins_remaining: *num_spins - 1
SpinsRemaining(num_spins) == SubU32(num_spins, 1)

SpinMeleeState(a) ==
    {IF spins.panic THEN PanicState
     ELSE [kind |-> "SpinMelee",
           static_data |->
              [buildup_duration |-> a.buildup_duration,
               swing_duration |-> a.swing_duration,
               recover_duration |-> a.recover_duration,
               base_damage |-> a.base_damage, knockback |-> a.knockback,
               range |-> a.range, energy_cost |-> a.energy_cost,
               is_infinite |-> a.is_infinite,
               is_helicopter |-> a.is_helicopter,
               is_interruptible |-> a.is_interruptible,
               forward_speed |-> a.forward_speed,
               num_spins |-> a.num_spins],
           timer |-> DurationDefault, spins_remaining |-> spins.value,
           stage_section |-> StageBuildup, exhausted |-> FALSE] :
        spins \in SpinsRemaining(a.num_spins)}

ChargedRangedState(a) ==
    [kind |-> "ChargedRanged", exhausted |-> FALSE,
     energy_drain |-> a.energy_drain, initial_damage |-> a.initial_damage,
     max_damage |-> a.max_damage,
     initial_knockback |-> a.initial_knockback,
     max_knockback |-> a.max_knockback,
     prepare_duration |-> a.prepare_duration,
     charge_duration |-> a.charge_duration,
     charge_timer |-> DurationDefault,
     recover_duration |-> a.recover_duration,
     projectile_body |-> a.projectile_body,
     projectile_light |-> a.projectile_light,
     projectile_gravity |-> a.projectile_gravity,
     initial_projectile_speed |-> a.initial_projectile_speed,
     max_projectile_speed |-> a.max_projectile_speed]

GroundShockwaveState(a) ==
    [kind |-> "GroundShockwave", exhausted |-> FALSE,
     buildup_duration |-> a.buildup_duration,
     recover_duration |-> a.recover_duration, damage |-> a.damage,
     knockback |-> a.knockback, shockwave_angle |-> a.shockwave_angle,
     shockwave_speed |-> a.shockwave_speed,
     shockwave_duration |-> a.shockwave_duration,
     requires_ground |-> a.requires_ground]

\* the outcomes of CharacterState::from(ability)
Compile(a) ==
    CASE a.kind = "BasicMelee" -> {BasicMeleeState(a)}
      [] a.kind = "BasicRanged" -> {BasicRangedState(a)}
      [] a.kind = "Boost" -> {BoostState(a)}
      [] a.kind = "DashMelee" -> {DashMeleeState(a)}
      [] a.kind = "BasicBlock" -> {BasicBlockState}
      [] a.kind = "Roll" -> {RollState}
      [] a.kind = "ComboMelee" -> {ComboMeleeState(a)}
      [] a.kind = "LeapMelee" -> {LeapMeleeState(a)}
      [] a.kind = "SpinMelee" -> SpinMeleeState(a)
      [] a.kind = "ChargedRanged" -> {ChargedRangedState(a)}
      [] a.kind = "GroundShockwave" -> {GroundShockwaveState(a)}

----------------------------------------------------------------------------
(* The execution state machine: one tick of a compiled CharacterState.     *)
(* A tick gets the elapsed time dt, whether the ability's input is held,   *)
(* whether the energy sustains a continuous cost, and ground contact.      *)

Timed ==
    {"BasicMelee", "BasicRanged", "ChargedRanged", "DashMelee", "LeapMelee",
     "SpinMelee", "GroundShockwave", "ComboMelee"}

\* the progress fields, read with their initial value where the compiled
\* state carries no such field
Sec(c) == IF "stage_section" \in DOMAIN c THEN c.stage_section ELSE StageBuildup
Tim(c) == IF "timer" \in DOMAIN c THEN c.timer ELSE DurationDefault
Exh(c) == IF "exhausted" \in DOMAIN c THEN c.exhausted ELSE FALSE

\* c with the fields of upd written
With(c, upd) == upd @@ c

\* the parameters copied from the catalog entry
Static(c) == IF "static_data" \in DOMAIN c THEN c.static_data ELSE c

\* a combo whose stage counter is past the configured stage count
PastLastStage(c) ==
    c.kind = "ComboMelee" /\ c.stage > c.static_data.num_stages

\* the stage of the combo that is running
CurrentStage(c) == c.static_data.stage_data[c.stage]

BuildupDuration(c) ==
    CASE c.kind \in {"BasicRanged", "ChargedRanged"} -> c.prepare_duration
      [] c.kind = "ComboMelee" -> CurrentStage(c).base_buildup_duration
      [] OTHER -> Static(c).buildup_duration

ActionDuration(c) ==
    CASE c.kind \in {"DashMelee", "SpinMelee"} -> c.static_data.swing_duration
      [] c.kind = "ComboMelee" -> CurrentStage(c).base_swing_duration
      [] c.kind = "LeapMelee" -> c.movement_duration
      [] c.kind = "GroundShockwave" -> c.shockwave_duration
      [] OTHER -> DurationDefault

RecoverDuration(c) ==
    IF c.kind = "ComboMelee" THEN CurrentStage(c).base_recover_duration
    ELSE Static(c).recover_duration

HasCharge(c) == c.kind \in {"DashMelee", "ChargedRanged"}

Running(c) == [character |-> c, emit |-> 0, status |-> "running"]
Emitting(c) == [character |-> c, emit |-> 1, status |-> "running"]
Ended(c, how) == [character |-> c, emit |-> 0, status |-> how]

\* Buildup: the timer accumulates toward the buildup (prepare) duration,
\* then the next stage begins with the timer reset
TickBuildup(c, in) ==
    IF c.kind = "BasicRanged" /\ c.prepare_timer < BuildupDuration(c)
    THEN Running(With(c, [prepare_timer |-> c.prepare_timer + in.dt]))
    ELSE IF c.kind # "BasicRanged" /\ Tim(c) < BuildupDuration(c)
    THEN Running(With(c, [timer |-> Tim(c) + in.dt]))
    ELSE Running(With(c, [stage_section |->
                              IF HasCharge(c) THEN StageCharge ELSE StageAction,
                          timer |-> DurationDefault]))

\* the charge loop of the dash and of the charged shot
ChargeTimer(c) == IF c.kind = "ChargedRanged" THEN c.charge_timer ELSE Tim(c)

ChargeContinues(c, in) ==
    /\ in.held
    /\ in.sustained
    /\ \/ c.kind = "DashMelee" /\ c.static_data.infinite_charge
       \/ ChargeTimer(c) < Static(c).charge_duration

TickCharge(c, in) ==
    IF ChargeContinues(c, in)
    THEN IF ChargeTimer(c) >= Static(c).charge_duration
         THEN Running(c)
         ELSE IF c.kind = "ChargedRanged"
         THEN Running(With(c, [charge_timer |-> c.charge_timer + in.dt]))
         ELSE Running(With(c, [timer |-> Tim(c) + in.dt]))
    ELSE IF c.kind = "DashMelee"
    THEN Running(With(c, [stage_section |-> StageAction,
                          timer |-> DurationDefault,
                          end_charge |-> TRUE]))
    ELSE Running(With(c, [stage_section |-> StageAction,
                          timer |-> DurationDefault]))

\* the spin starts another rotation
SpinRepeats(c, in) ==
    /\ c.kind = "SpinMelee"
    /\ IF c.static_data.is_infinite
       THEN in.held /\ in.sustained
       ELSE c.spins_remaining > 0

\* SpinRepeat that counts the configured num_spins down
SpinRepeat_CountConfigured(c) ==
    With(c, [timer |-> DurationDefault, exhausted |-> FALSE,
             static_data |->
                 [c.static_data EXCEPT !.num_spins =
                     IF c.static_data.is_infinite THEN @ ELSE @ - 1],
             spins_remaining |->
                 IF c.static_data.is_infinite THEN c.spins_remaining
                 ELSE c.spins_remaining - 1])

SpinRepeat(c) ==
    With(c, [timer |-> DurationDefault, exhausted |-> FALSE,
             spins_remaining |->
                 IF c.static_data.is_infinite THEN c.spins_remaining
                 ELSE c.spins_remaining - 1])

\* FirePrimary that leaves exhausted as it is
FirePrimary_NoExhaust(c) == Emitting(c)

\* the first tick of an Action stage emits the primary effect
FirePrimary(c) ==
    IF c.kind = "ComboMelee"
    THEN Emitting(With(c, [exhausted |-> TRUE, combo |-> c.combo + 1]))
    ELSE Emitting(With(c, [exhausted |-> TRUE]))

\* Action: the effect fires once, then the timer runs to the stage's
\* duration
TickAction(c, in) ==
    IF c.kind = "GroundShockwave" /\ c.requires_ground /\ ~in.on_ground
    THEN Ended(c, "aborted")
    ELSE IF ~Exh(c) THEN FirePrimary(c)
    ELSE IF Tim(c) < ActionDuration(c)
    THEN Running(With(c, [timer |-> Tim(c) + in.dt]))
    ELSE IF c.kind = "BasicRanged" /\ c.holdable /\ in.held THEN Running(c)
    ELSE IF SpinRepeats(c, in) THEN Running(SpinRepeat(c))
    ELSE Running(With(c, [stage_section |-> StageRecovery,
                          timer |-> DurationDefault]))

\* the combo chains to its next stage
Chains(c, follow_up) ==
    c.kind = "ComboMelee" /\ follow_up /\ c.stage < c.static_data.num_stages

NextStage(c) ==
    With(c, [stage |-> c.stage + 1, stage_section |-> StageBuildup,
             timer |-> DurationDefault, next_stage |-> FALSE,
             exhausted |-> FALSE])

\* RecoveryDone that starts the pass again when a follow-up is registered
RecoveryDone_Restart(c, follow_up) ==
    IF Chains(c, follow_up) THEN Running(NextStage(c))
    ELSE IF follow_up
    THEN Running(With(c, [stage_section |-> StageBuildup,
                          timer |-> DurationDefault, next_stage |-> FALSE,
                          exhausted |-> FALSE]))
    ELSE Ended(c, "terminal")

\* what the end of Recovery leads to
RecoveryDone(c, follow_up) ==
    IF Chains(c, follow_up) THEN Running(NextStage(c))
    ELSE Ended(c, "terminal")

\* Recovery: a combo registers a follow-up input; the timer runs to the
\* recover duration
TickRecovery(c, in) ==
    LET follow_up == c.kind = "ComboMelee" /\ (c.next_stage \/ in.held)
        r == IF c.kind = "ComboMelee"
             THEN With(c, [next_stage |-> follow_up])
             ELSE c
    IN  IF Tim(c) < RecoverDuration(c)
        THEN Running(With(r, [timer |-> Tim(c) + in.dt]))
        ELSE RecoveryDone(r, follow_up)

\* the leap's first tick gives the impulse and clears initialize
Initialized(c) ==
    IF c.kind = "LeapMelee" /\ c.initialize
    THEN With(c, [initialize |-> FALSE])
    ELSE c

\* one tick of a timed character state
TickState(c, in) ==
    IF PastLastStage(c) THEN Ended(c, "terminal")
    ELSE CASE Sec(c) = StageBuildup -> TickBuildup(Initialized(c), in)
           [] Sec(c) = StageCharge -> TickCharge(c, in)
           [] Sec(c) = StageAction -> TickAction(c, in)
           [] Sec(c) = StageRecovery -> TickRecovery(c, in)

----------------------------------------------------------------------------
(* Items, ItemConfig and the Loadout *)

\* Option::None
None == [kind |-> "None"]

\* armor::Protection
Normal(p) == [kind |-> "Normal", value |-> p]
Invincible == [kind |-> "Invincible"]

\* Item, by its ItemKind
ToolItem(abilities) == [kind |-> "Tool", abilities |-> abilities]
ArmorItem(protection) == [kind |-> "Armor", protection |-> protection]
LanternItem == [kind |-> "Lantern"]
GliderItem == [kind |-> "Glider"]
IngredientItem == [kind |-> "Ingredient"]

\* Tool::get_abilities: the abilities the tool declares, in their order
GetAbilities(tool) == tool.abilities

\* Armor::get_protection
GetProtection(armor_item) == armor_item.protection

\* the conversion hit unimplemented!
Unimplemented == [kind |-> "Panic"]

\* Drain::next: the first element still in the drain, and the drain after it
DrainNext(drain) ==
    IF drain = <<>>
    THEN [item |-> None, rest |-> <<>>]
    ELSE [item |-> Head(drain), rest |-> Tail(drain)]

\* ItemConfigFrom with the first declared ability skipped
ItemConfigFrom_SkipFirst(it) ==
    IF it.kind = "Tool"
    THEN LET n0 == DrainNext(GetAbilities(it))
             n1 == DrainNext(n0.rest)
             n2 == DrainNext(n1.rest)
             n3 == DrainNext(n2.rest)
             n4 == DrainNext(n3.rest)
             n5 == DrainNext(n4.rest)
         IN  [kind |-> "ItemConfig", item |-> it,
              ability1 |-> n1.item, ability2 |-> n2.item,
              ability3 |-> n3.item, ability4 |-> n4.item,
              ability5 |-> n5.item,
              block_ability |-> BasicBlock, dodge_ability |-> Roll]
    ELSE Unimplemented

\* ItemConfigFrom that gives an item that is no tool a config without
\* abilities
ItemConfigFrom_EmptyConfig(it) ==
    LET n1 == DrainNext(IF it.kind = "Tool" THEN GetAbilities(it) ELSE <<>>)
        n2 == DrainNext(n1.rest)
        n3 == DrainNext(n2.rest)
        n4 == DrainNext(n3.rest)
        n5 == DrainNext(n4.rest)
    IN  [kind |-> "ItemConfig", item |-> it,
         ability1 |-> n1.item, ability2 |-> n2.item,
         ability3 |-> n3.item, ability4 |-> n4.item,
         ability5 |-> n5.item,
         block_ability |-> BasicBlock, dodge_ability |-> Roll]

\* ItemConfig::from(item)
ItemConfigFrom(it) ==
    IF it.kind = "Tool"
    THEN LET n1 == DrainNext(GetAbilities(it))
             n2 == DrainNext(n1.rest)
             n3 == DrainNext(n2.rest)
             n4 == DrainNext(n3.rest)
             n5 == DrainNext(n4.rest)
         IN  [kind |-> "ItemConfig", item |-> it,
              ability1 |-> n1.item, ability2 |-> n2.item,
              ability3 |-> n3.item, ability4 |-> n4.item,
              ability5 |-> n5.item,
              block_ability |-> BasicBlock, dodge_ability |-> Roll]
    ELSE Unimplemented

\* Loadout::default()
LoadoutDefault ==
    [active_item |-> None, second_item |-> None, lantern |-> None,
     glider |-> None, shoulder |-> None, chest |-> None, belt |-> None,
     hand |-> None, pants |-> None, foot |-> None, back |-> None,
     ring |-> None, neck |-> None, head |-> None, tabard |-> None]

\* GetArmor with the lantern slot tagged for the array as well
GetArmor_WithLantern(l) ==
    <<l.lantern, l.shoulder, l.chest, l.belt, l.hand, l.pants, l.foot,
      l.back, l.ring, l.neck, l.head, l.tabard>>

\* Loadout::get_armor: the fields tagged in_array(get_armor), in the order
\* of their declaration
GetArmor(l) ==
    <<l.shoulder, l.chest, l.belt, l.hand, l.pants, l.foot, l.back, l.ring,
      l.neck, l.head, l.tabard>>

\* Option<f32>
SomeF32(v) == [some |-> TRUE, value |-> v]
NoneF32 == [some |-> FALSE, value |-> 0]

\* the protections of the armor items among the slots (flat_map, filter_map)
RECURSIVE Protections(_)
Protections(slots) ==
    IF slots = <<>> THEN <<>>
    ELSE IF Head(slots) # None /\ Head(slots).kind = "Armor"
    THEN <<GetProtection(Head(slots))>> \o Protections(Tail(slots))
    ELSE Protections(Tail(slots))

\* .map(..).sum::<Option<f32>>(): Normal(p) counts p, an Invincible makes
\* the sum None
RECURSIVE SumProtection(_)
SumProtection(protections) ==
    IF protections = <<>> THEN SomeF32(0)
    ELSE IF Head(protections).kind = "Invincible" THEN NoneF32
    ELSE LET rest == SumProtection(Tail(protections))
         IN  IF rest.some
             THEN SomeF32(Head(protections).value + rest.value)
             ELSE NoneF32

Abs(x) == IF x < 0 THEN -x ELSE x

\* the 60.0 of the damage reduction curve
ProtectionScale == 60

\* an f32 quotient, kept as the fraction num / den
Quotient(n, d) == [num |-> n, den |-> d]

\* GetDamageReduction without the abs() in the denominator
GetDamageReduction_NoAbs(l) ==
    LET protection == SumProtection(Protections(GetArmor(l)))
    IN  IF protection.some
        THEN Quotient(protection.value, ProtectionScale + protection.value)
        ELSE Quotient(1, 1)

\* Loadout::get_damage_reduction
GetDamageReduction(l) ==
    LET protection == SumProtection(Protections(GetArmor(l)))
    IN  IF protection.some
        THEN Quotient(protection.value,
                      ProtectionScale + Abs(protection.value))
        ELSE Quotient(1, 1)

\* no call of the accessors since the last slot change
NotCalledArmor == [calls |-> 0, value |-> <<>>]
NotCalledReduction == [calls |-> 0, value |-> Quotient(0, 1)]

\* the loadout part and the item part at rest
LoadoutIdle ==
    /\ loadout = LoadoutDefault
    /\ armor = NotCalledArmor
    /\ reduction = NotCalledReduction

ItemIdle == item = None /\ item_config = None

----------------------------------------------------------------------------
(* The classification: From<&CharacterState> for CharacterAbilityType *)

\* a tag without data
Tag(name) == [kind |-> name]

\* CharacterAbilityTypeFrom with the ground shockwave given its own tag
CharacterAbilityTypeFrom_OwnTag(state) ==
    CASE state.kind = "BasicMelee" -> Tag("BasicMelee")
      [] state.kind = "BasicRanged" -> Tag("BasicRanged")
      [] state.kind = "Boost" -> Tag("Boost")
      [] state.kind = "DashMelee" -> Tag("DashMelee")
      [] state.kind = "BasicBlock" -> Tag("BasicBlock")
      [] state.kind = "LeapMelee" -> Tag("LeapMelee")
      [] state.kind = "ComboMelee" ->
            [kind |-> "ComboMelee", stage_section |-> state.stage_section,
             stage |-> state.stage]
      [] state.kind = "SpinMelee" -> Tag("SpinMelee")
      [] state.kind = "ChargedRanged" -> Tag("ChargedRanged")
      [] state.kind = "GroundShockwave" -> Tag("GroundShockwave")
      [] OTHER -> Tag("BasicMelee")

\* CharacterAbilityType::from(state)
CharacterAbilityTypeFrom(state) ==
    CASE state.kind = "BasicMelee" -> Tag("BasicMelee")
      [] state.kind = "BasicRanged" -> Tag("BasicRanged")
      [] state.kind = "Boost" -> Tag("Boost")
      [] state.kind = "DashMelee" -> Tag("DashMelee")
      [] state.kind = "BasicBlock" -> Tag("BasicBlock")
      [] state.kind = "LeapMelee" -> Tag("LeapMelee")
      [] state.kind = "ComboMelee" ->
            [kind |-> "ComboMelee", stage_section |-> state.stage_section,
             stage |-> state.stage]
      [] state.kind = "SpinMelee" -> Tag("SpinMelee")
      [] state.kind = "ChargedRanged" -> Tag("ChargedRanged")
      [] state.kind = "GroundShockwave" -> Tag("ChargedRanged")
      [] OTHER -> Tag("BasicMelee")

----------------------------------------------------------------------------
(* The tooltip manager.  An Instant is kept as the time elapsed since it  *)
(* was taken.                                                              *)

MaxTooltipDur == 2
MaxReports == 4

\* elapsed times are counted up to just past the longest duration
MaxElapsed == MaxTooltipDur + 1

\* Option::Some(v)
Some(v) == [kind |-> "Some", value |-> v]

\* Hover::start(aabr): the instant is now
HoverStart(aabr) == [elapsed |-> 0, aabr |-> aabr]

\* the variants of State
StateIdle == [kind |-> "Idle"]

StateStart(hover) == [kind |-> "Start", hover |-> hover]

StateShowing(show) == [kind |-> "Showing", show |-> show]

StateFading(elapsed, show, hover) ==
    [kind |-> "Fading", elapsed |-> elapsed, show |-> show, hover |-> hover]

\* TooltipManager::new(hover_dur, fade_dur)
TooltipManagerNew(hover_dur, fade_dur) ==
    [state |-> StateIdle, update |-> None, hover_pos |-> 0,
     hover_dur |-> hover_dur, fade_dur |-> fade_dur]

\* PointerPhase with the timer of a Start kept when the region changes
PointerPhase_KeepTimer(state, update) ==
    IF update # None
    THEN LET aabr == update.value.aabr IN
         CASE state.kind = "Idle" -> StateStart(HoverStart(aabr))
           [] state.kind = "Start" ->
                 StateStart([state.hover EXCEPT !.aabr = aabr])
           [] state.kind = "Showing" ->
                 IF state.show.aabr # aabr
                 THEN StateFading(0, state.show, Some(HoverStart(aabr)))
                 ELSE state
           [] state.kind = "Fading" ->
                 IF state.hover # None /\ state.hover.value.aabr = aabr
                 THEN state
                 ELSE StateFading(state.elapsed, state.show,
                                  Some(HoverStart(aabr)))
    ELSE CASE state.kind \in {"Idle", "Start"} -> StateIdle
           [] state.kind = "Showing" -> StateFading(0, state.show, None)
           [] state.kind = "Fading" ->
                 StateFading(state.elapsed, state.show, None)

\* PointerPhase with the fade restarted by a report of another region
PointerPhase_FadeRestart(state, update) ==
    IF update # None
    THEN LET aabr == update.value.aabr IN
         CASE state.kind = "Idle" -> StateStart(HoverStart(aabr))
           [] state.kind = "Start" ->
                 IF state.hover.aabr # aabr
                 THEN StateStart(HoverStart(aabr))
                 ELSE state
           [] state.kind = "Showing" ->
                 IF state.show.aabr # aabr
                 THEN StateFading(0, state.show, Some(HoverStart(aabr)))
                 ELSE state
           [] state.kind = "Fading" ->
                 IF state.hover # None /\ state.hover.value.aabr = aabr
                 THEN state
                 ELSE StateFading(0, state.show, Some(HoverStart(aabr)))
    ELSE CASE state.kind \in {"Idle", "Start"} -> StateIdle
           [] state.kind = "Showing" -> StateFading(0, state.show, None)
           [] state.kind = "Fading" ->
                 StateFading(state.elapsed, state.show, None)

\* maintain, first match: the state against the report taken, if any
PointerPhase(state, update) ==
    IF update # None
    THEN LET aabr == update.value.aabr IN
         CASE state.kind = "Idle" -> StateStart(HoverStart(aabr))
           [] state.kind = "Start" ->
                 IF state.hover.aabr # aabr
                 THEN StateStart(HoverStart(aabr))
                 ELSE state
           [] state.kind = "Showing" ->
                 IF state.show.aabr # aabr
                 THEN StateFading(0, state.show, Some(HoverStart(aabr)))
                 ELSE state
           [] state.kind = "Fading" ->
                 IF state.hover # None /\ state.hover.value.aabr = aabr
                 THEN state
                 ELSE StateFading(state.elapsed, state.show,
                                  Some(HoverStart(aabr)))
    ELSE CASE state.kind \in {"Idle", "Start"} -> StateIdle
           [] state.kind = "Showing" -> StateFading(0, state.show, None)
           [] state.kind = "Fading" ->
                 StateFading(state.elapsed, state.show, None)

\* the hover a Start or a Fading carries
PendingHover(state) ==
    CASE state.kind = "Start" -> Some(state.hover)
      [] state.kind = "Fading" -> state.hover
      [] OTHER -> None

\* maintain, second match: the state against the time elapsed
TemporalPhase(state, hover_pos, hover_dur, fade_dur) ==
    LET pending == PendingHover(state) IN
    IF pending # None /\ pending.value.elapsed >= hover_dur
    THEN StateShowing([hover_pos |-> hover_pos,
                       aabr |-> pending.value.aabr])
    ELSE IF state.kind = "Fading" /\ state.elapsed >= fade_dur
    THEN IF state.hover # None
         THEN StateStart(state.hover.value)
         ELSE StateIdle
    ELSE state

\* TooltipManager::showing(aabr)
ManagerShowing(m, aabr) ==
    CASE m.state.kind \in {"Idle", "Start"} -> FALSE
      [] m.state.kind \in {"Showing", "Fading"} -> m.state.show.aabr = aabr

\* an elapsed time one unit later
Later(elapsed) == IF elapsed < MaxElapsed THEN elapsed + 1 ELSE elapsed

\* a hover one unit of time later
HoverLater(hover) == [hover EXCEPT !.elapsed = Later(@)]

\* a State one unit of time later
StateLater(state) ==
    CASE state.kind = "Start" -> StateStart(HoverLater(state.hover))
      [] state.kind = "Fading" ->
            StateFading(Later(state.elapsed), state.show,
                        IF state.hover # None
                        THEN Some(HoverLater(state.hover.value))
                        ELSE None)
      [] OTHER -> state

\* no hover on record
NoHover == [elapsed |-> 0, aabr |-> "none"]

----------------------------------------------------------------------------
(* Terrain: chunk indices and positions *)

MaxLg == 2

\* a & b on unsigned integers
RECURSIVE BitAnd(_, _)
BitAnd(a, b) ==
    IF a = 0 \/ b = 0
    THEN 0
    ELSE (a % 2) * (b % 2) + 2 * BitAnd(a \div 2, b \div 2)

\* a | b on unsigned integers
RECURSIVE BitOr(_, _)
BitOr(a, b) ==
    IF a = 0 THEN b
    ELSE IF b = 0 THEN a
    ELSE (IF a % 2 = 1 \/ b % 2 = 1 THEN 1 ELSE 0)
            + 2 * BitOr(a \div 2, b \div 2)

\* a << n, no bit shifted out
Shl(a, n) == a * Pow2(n)

\* a >> n
Shr(a, n) == a \div Pow2(n)

Vec2(x, y) == [x |-> x, y |-> y]

\* MapSizeLg::vec(): the base 2 logarithms of the map's sides
MapVec(lg) == lg

\* MapSizeLg::chunks(): the map's sides in chunks
Chunks(lg) == Vec2(Shl(1, lg.x), Shl(1, lg.y))

\* uniform_idx_as_vec2(map_size_lg, idx)
UniformIdxAsVec2(lg, idx) ==
    LET x_mask == Shl(1, MapVec(lg).x) - 1 IN
    Vec2(BitAnd(idx, x_mask), Shr(idx, MapVec(lg).x))

\* vec2_as_uniform_idx with the row shifted by the map's height
Vec2AsUniformIdx_ShiftY(lg, idx) ==
    BitOr(Shl(idx.y, MapVec(lg).y), idx.x)

\* vec2_as_uniform_idx(map_size_lg, idx)
Vec2AsUniformIdx(lg, idx) ==
    BitOr(Shl(idx.y, MapVec(lg).x), idx.x)

\* NEIGHBOR_DELTA column by column
NEIGHBOR_DELTA_Columns ==
    << <<-1, -1>>, <<-1, 0>>, <<-1, 1>>,
       <<0, -1>>, <<0, 1>>,
       <<1, -1>>, <<1, 0>>, <<1, 1>> >>

NEIGHBOR_DELTA ==
    << <<-1, -1>>, <<0, -1>>, <<1, -1>>,
       <<-1, 0>>, <<1, 0>>,
       <<-1, 1>>, <<0, 1>>, <<1, 1>> >>

\* neighbors(map_size_lg, posi), the items in the order they are yielded
Neighbors(lg, posi_) ==
    LET pos == UniformIdxAsVec2(lg, posi_)
        world_size == Chunks(lg)
        moved == [i \in 1 .. Len(NEIGHBOR_DELTA) |->
                     Vec2(pos.x + NEIGHBOR_DELTA[i][1],
                          pos.y + NEIGHBOR_DELTA[i][2])]
        kept == SelectSeq(moved,
                    LAMBDA p : /\ p.x >= 0
                               /\ p.y >= 0
                               /\ p.x < world_size.x
                               /\ p.y < world_size.y)
    IN [i \in 1 .. Len(kept) |-> Vec2AsUniformIdx(lg, kept[i])]

\* a chunk index and a chunk position, tagged
IdxValue(idx) == [kind |-> "idx", idx |-> idx]

PosValue(pos) == [kind |-> "pos", pos |-> pos]

\* the other representation of a tagged value
Converted(lg, v) ==
    IF v.kind = "idx"
    THEN PosValue(UniformIdxAsVec2(lg, v.idx))
    ELSE IdxValue(Vec2AsUniformIdx(lg, v.pos))

NotCalledNeighbors == [called |-> FALSE, value |-> <<>>]

----------------------------------------------------------------------------
(* The parts at rest *)

TypeIdle == ability_type = None

TooltipIdle ==
    /\ manager = TooltipManagerNew(0, 0)
    /\ reported = NoHover
    /\ seen = NoHover
    /\ reports_left = 0

TerrainIdle ==
    /\ map_size_lg = [x |-> 0, y |-> 0]
    /\ conv = <<>>
    /\ posi = 0
    /\ neighbor_out = NotCalledNeighbors

RestIdle == TypeIdle /\ TooltipIdle /\ TerrainIdle

----------------------------------------------------------------------------
(* Compiling an ability and driving the state tick by tick *)

Durs == 0 .. MaxDur

StageLists ==
    {[i \in 1 .. n |-> Stage(i, d, d, 1)] : n \in 0 .. MaxStages, d \in 0 .. 1}

ExecAbilities ==
    {BasicMelee(1, bd, rd) : bd \in Durs, rd \in Durs}
        \cup {BasicRanged(1, h, pd, 1) : h \in BOOLEAN, pd \in Durs}
        \cup {Boost(1, up) : up \in BOOLEAN}
        \cup {DashMelee(1, 1, cd, sd, 1, inf) :
                cd \in Durs, sd \in Durs, inf \in BOOLEAN}
        \cup {BasicBlock, Roll}
        \cup {ComboMelee(st) : st \in StageLists}
        \cup {LeapMelee(1, md, bd, 1) : md \in Durs, bd \in Durs}
        \cup {SpinMelee(1, 1, sd, rd, inf, n) :
                sd \in Durs, rd \in 0 .. 1, inf \in BOOLEAN,
                n \in 0 .. MaxSpins}
        \cup {ChargedRanged(1, pd, cd, 1) : pd \in Durs, cd \in Durs}
        \cup {GroundShockwave(1, 1, rd, sd, rg) :
                rd \in 0 .. 1, sd \in Durs, rg \in BOOLEAN}

Inputs ==
    [dt : 1 .. MaxDt, held : BOOLEAN, sustained : BOOLEAN,
     on_ground : BOOLEAN]

ExecInit ==
    /\ ability \in ExecAbilities
    /\ data = [physics |-> [on_ground |-> TRUE], body |-> "Humanoid",
               vel |-> [x |-> 0, y |-> 0]]
    /\ energy = [current |-> MaxEnergy, maximum |-> MaxEnergy]
    /\ energy_before = energy
    /\ paid = "true"
    /\ character = NoCharacter
    /\ compiled_state = NoCharacter
    /\ status = "select"
    /\ effects = 0
    /\ loops = 0
    /\ stage_flips = 0
    /\ tick_parity = 0
    /\ LoadoutIdle
    /\ ItemIdle
    /\ RestIdle

\* character = CharacterState::from(&ability)
CompileAbility ==
    /\ status = "select"
    /\ \E c \in Compile(ability) :
        /\ character' = c
        /\ compiled_state' = c
        /\ status' = IF c = PanicState THEN "panic" ELSE "running"
    /\ UNCHANGED <<effects, loops, stage_flips, tick_parity>>
    /\ UNCHANGED <<gate_vars, loadout_vars, item_vars, rest_vars>>

\* an Action stage begins: the stage is entered, or the spin repeats it
BeginsAction(c, d) ==
    /\ Sec(d) = StageAction
    /\ Sec(c) # StageAction \/ (Exh(c) /\ ~Exh(d))

\* one tick of the running state
Tick ==
    /\ status = "running"
    /\ character.kind \in Timed
    /\ \E in \in Inputs :
        LET r == TickState(character, in)
            begins == BeginsAction(character, r.character)
        IN  /\ ~(begins /\ loops >= MaxLoops
                 /\ character.kind = "SpinMelee"
                 /\ character.static_data.is_infinite)
            /\ character' = r.character
            /\ status' = r.status
            /\ effects' = effects + r.emit
            /\ loops' = IF begins THEN loops + 1 ELSE loops
            /\ stage_flips' =
                 IF begins THEN 0
                 ELSE IF ~Exh(character) /\ Exh(r.character)
                 THEN stage_flips + 1
                 ELSE stage_flips
    /\ tick_parity' = 1 - tick_parity
    /\ UNCHANGED compiled_state
    /\ UNCHANGED <<gate_vars, loadout_vars, item_vars, rest_vars>>

ExecNext == CompileAbility \/ Tick

SpecExec == ExecInit /\ [][ExecNext]_vars

\* the driver ticks a running state again and again
SpecExecFair == SpecExec /\ WF_vars(Tick)

----------------------------------------------------------------------------
(* The gate's inputs *)

CostValues ==
    (0 .. MaxCost) \cup (I32Max - 1 .. I32Max + 2)
        \cup (U32Max - MaxCost .. U32Max)

GateAbilities ==
    {BasicMelee(c, 1, 1) : c \in CostValues}
        \cup {BasicRanged(c, FALSE, 1, 1) : c \in CostValues}
        \cup {DashMelee(c, 1, 1, 1, 1, FALSE) : c \in CostValues}
        \cup {LeapMelee(c, 1, 1, 1) : c \in CostValues}
        \cup {SpinMelee(c, 1, 1, 1, FALSE, 1) : c \in CostValues}
        \cup {ChargedRanged(c, 1, 1, 1) : c \in CostValues}
        \cup {GroundShockwave(c, 1, 1, 1, FALSE) : c \in CostValues}
        \cup {Roll, BasicBlock, Boost(1, FALSE),
              ComboMelee(<<Stage(1, 1, 1, 1)>>)}

Bodies == {"Humanoid", "QuadrupedSmall"}

JoinDatas ==
    [physics : [on_ground : BOOLEAN], body : Bodies,
     vel : [x : 0 .. MaxVel, y : 0 .. 1]]

Energies == [current : 0 .. MaxEnergy, maximum : {MaxEnergy}]

GateInit ==
    /\ ability \in GateAbilities
    /\ data \in JoinDatas
    /\ energy \in Energies
    /\ energy_before = energy
    /\ paid = "none"
    /\ character = NoCharacter
    /\ compiled_state = NoCharacter
    /\ status = "select"
    /\ effects = 0
    /\ loops = 0
    /\ stage_flips = 0
    /\ tick_parity = 0
    /\ LoadoutIdle
    /\ ItemIdle
    /\ RestIdle

\* one call of ability.requirements_paid(data, update)
RequirementsPaid ==
    /\ paid = "none"
    /\ \E out \in RequirementsPaidOutcomes(ability, data, energy) :
        /\ paid' = out.paid
        /\ energy' = out.energy
    /\ UNCHANGED <<ability, data, energy_before>>
    /\ UNCHANGED <<exec_vars, loadout_vars, item_vars, rest_vars>>

GateNext == RequirementsPaid

SpecGate == GateInit /\ [][GateNext]_vars

----------------------------------------------------------------------------
(* The loadout: slots are assigned, the accessors are called *)

GateIdle ==
    /\ ability = Roll
    /\ data = [physics |-> [on_ground |-> TRUE], body |-> "Humanoid",
               vel |-> [x |-> 0, y |-> 0]]
    /\ energy = [current |-> MaxEnergy, maximum |-> MaxEnergy]
    /\ energy_before = energy
    /\ paid = "none"

ExecIdle ==
    /\ character = NoCharacter
    /\ compiled_state = NoCharacter
    /\ status = "select"
    /\ effects = 0
    /\ loops = 0
    /\ stage_flips = 0
    /\ tick_parity = 0

ArmorSlots ==
    {"shoulder", "chest", "belt", "hand", "pants", "foot", "back", "ring",
     "neck", "head", "tabard"}

WeaponSlots == {"active_item", "second_item"}

ProtectionValues == {-MaxProtection, MaxProtection}

\* what a slot may be assigned: None empties it
SlotValues(slot) ==
    {None} \cup
        CASE slot \in ArmorSlots ->
                {ArmorItem(Normal(p)) : p \in ProtectionValues}
                    \cup {ArmorItem(Invincible), IngredientItem}
          [] slot \in WeaponSlots ->
                {ItemConfigFrom(ToolItem(<<BasicMelee(1, 1, 1)>>))}
          [] slot = "lantern" -> {LanternItem}
          [] slot = "glider" -> {GliderItem}

Occupied(l) == Cardinality({slot \in DOMAIN l : l[slot] # None})

LoadoutInit ==
    /\ LoadoutIdle
    /\ ItemIdle
    /\ RestIdle
    /\ GateIdle
    /\ ExecIdle

\* loadout.<slot> = value
AssignSlot ==
    /\ \E slot \in DOMAIN loadout :
        \E value \in SlotValues(slot) :
            /\ value # loadout[slot]
            /\ loadout' = [loadout EXCEPT ![slot] = value]
            /\ Occupied(loadout') <= MaxPieces
    /\ armor' = NotCalledArmor
    /\ reduction' = NotCalledReduction
    /\ UNCHANGED <<gate_vars, exec_vars, item_vars, rest_vars>>

\* loadout.get_armor()
CallGetArmor ==
    /\ armor.calls + reduction.calls < MaxCalls
    /\ armor' = [calls |-> armor.calls + 1, value |-> GetArmor(loadout)]
    /\ UNCHANGED <<loadout, reduction>>
    /\ UNCHANGED <<gate_vars, exec_vars, item_vars, rest_vars>>

\* loadout.get_damage_reduction()
CallGetDamageReduction ==
    /\ armor.calls + reduction.calls < MaxCalls
    /\ reduction' = [calls |-> reduction.calls + 1,
                     value |-> GetDamageReduction(loadout)]
    /\ UNCHANGED <<loadout, armor>>
    /\ UNCHANGED <<gate_vars, exec_vars, item_vars, rest_vars>>

LoadoutNext == AssignSlot \/ CallGetArmor \/ CallGetDamageReduction

SpecLoadout == LoadoutInit /\ [][LoadoutNext]_vars

----------------------------------------------------------------------------
(* Building an ItemConfig from an item *)

DeclaredAbilities == {BasicMelee(1, 1, 1), Boost(1, FALSE)}

AbilityLists ==
    UNION {[1 .. n -> DeclaredAbilities] : n \in 0 .. MaxAbilities}

Items ==
    {ToolItem(abilities) : abilities \in AbilityLists}
        \cup {ArmorItem(Normal(MaxProtection)), ArmorItem(Invincible),
              LanternItem, GliderItem, IngredientItem}

ItemInit ==
    /\ item \in Items
    /\ item_config = None
    /\ LoadoutIdle
    /\ RestIdle
    /\ GateIdle
    /\ ExecIdle

\* item_config = ItemConfig::from(item)
BuildItemConfig ==
    /\ item_config = None
    /\ item_config' = ItemConfigFrom(item)
    /\ UNCHANGED item
    /\ UNCHANGED <<gate_vars, exec_vars, loadout_vars, rest_vars>>

ItemNext == BuildItemConfig

SpecItem == ItemInit /\ [][ItemNext]_vars

----------------------------------------------------------------------------
(* Classifying the character state *)

ClassifyAbilities ==
    {BasicMelee(1, 1, 1), BasicRanged(1, FALSE, 1, 1), Boost(1, FALSE),
     DashMelee(1, 1, 1, 1, 1, FALSE), BasicBlock, Roll,
     ComboMelee([i \in 1 .. 2 |-> Stage(i, 1, 1, 1)]),
     LeapMelee(1, 1, 1, 1), SpinMelee(1, 1, 1, 1, FALSE, 2),
     ChargedRanged(1, 1, 1, 1), GroundShockwave(1, 1, 1, 1, FALSE)}

\* character states that no ability compiles to
OtherStates ==
    {[kind |-> "Idle"], [kind |-> "Climb"], [kind |-> "Sit"],
     [kind |-> "Glide"], [kind |-> "Wielding"], [kind |-> "Equipping"]}

ClassifyInit ==
    /\ ability \in ClassifyAbilities
    /\ data = [physics |-> [on_ground |-> TRUE], body |-> "Humanoid",
               vel |-> [x |-> 0, y |-> 0]]
    /\ energy = [current |-> MaxEnergy, maximum |-> MaxEnergy]
    /\ energy_before = energy
    /\ paid = "true"
    /\ ExecIdle
    /\ LoadoutIdle
    /\ ItemIdle
    /\ RestIdle

\* the character is put into a state that comes from no ability
EnterState ==
    /\ ability_type = None
    /\ status = "select"
    /\ \E c \in OtherStates :
        /\ character' = c
        /\ compiled_state' = c
    /\ status' = "running"
    /\ UNCHANGED <<effects, loops, stage_flips, tick_parity>>
    /\ UNCHANGED <<gate_vars, loadout_vars, item_vars, rest_vars>>

\* ability_type = CharacterAbilityType::from(&character)
Classify ==
    /\ ability_type = None
    /\ status \in {"running", "terminal", "aborted"}
    /\ ability_type' = CharacterAbilityTypeFrom(character)
    /\ UNCHANGED <<gate_vars, exec_vars, loadout_vars, item_vars,
                   tooltip_vars, terrain_vars>>

\* the state is compiled and ticked until it is classified
CompileUnclassified == ability_type = None /\ CompileAbility

TickUnclassified == ability_type = None /\ Tick

ClassifyNext ==
    \/ CompileUnclassified
    \/ EnterState
    \/ TickUnclassified
    \/ Classify

SpecClassify == ClassifyInit /\ [][ClassifyNext]_vars

----------------------------------------------------------------------------
(* Hover reports, maintain calls and the passing of time *)

Regions == {"A", "B"}

Positions == {0, 1}

TooltipDurs == 0 .. MaxTooltipDur

TooltipInit ==
    /\ \E hover_dur \in TooltipDurs, fade_dur \in TooltipDurs :
           manager = TooltipManagerNew(hover_dur, fade_dur)
    /\ reported = NoHover
    /\ seen = NoHover
    /\ reports_left = MaxReports
    /\ GateIdle
    /\ ExecIdle
    /\ LoadoutIdle
    /\ ItemIdle
    /\ TypeIdle
    /\ TerrainIdle

\* manager.update(Update((aabr, hover_pos))): a widget reports the pointer
\* over its region
Report ==
    /\ reports_left > 0
    /\ \E aabr \in Regions, hover_pos \in Positions :
        /\ manager' = [manager EXCEPT
               !.update = Some([aabr |-> aabr, hover_pos |-> hover_pos])]
        /\ reported' = IF reported.aabr = aabr
                       THEN reported
                       ELSE HoverStart(aabr)
    /\ reports_left' = reports_left - 1
    /\ UNCHANGED seen
    /\ UNCHANGED <<gate_vars, exec_vars, loadout_vars, item_vars,
                   type_vars, terrain_vars>>

\* manager.maintain()
Maintain ==
    /\ LET update == manager.update
           hover_pos == IF update # None
                        THEN update.value.hover_pos
                        ELSE manager.hover_pos
       IN /\ manager' = [manager EXCEPT
                 !.update = None,
                 !.hover_pos = hover_pos,
                 !.state = TemporalPhase(PointerPhase(manager.state, update),
                                         hover_pos, manager.hover_dur,
                                         manager.fade_dur)]
          /\ reported' = IF update # None THEN reported ELSE NoHover
          /\ seen' = IF update = None
                     THEN NoHover
                     ELSE IF seen.aabr = update.value.aabr
                     THEN seen
                     ELSE HoverStart(update.value.aabr)
    /\ UNCHANGED reports_left
    /\ UNCHANGED <<gate_vars, exec_vars, loadout_vars, item_vars,
                   type_vars, terrain_vars>>

\* one unit of time passes
Advance ==
    /\ manager' = [manager EXCEPT !.state = StateLater(@)]
    /\ reported' = IF reported # NoHover THEN HoverLater(reported)
                   ELSE reported
    /\ seen' = IF seen # NoHover THEN HoverLater(seen) ELSE seen
    /\ UNCHANGED reports_left
    /\ UNCHANGED <<gate_vars, exec_vars, loadout_vars, item_vars,
                   type_vars, terrain_vars>>

TooltipNext == Report \/ Maintain \/ Advance

SpecTooltip == TooltipInit /\ [][TooltipNext]_vars

\* maintain is called on every frame, and time passes
SpecTooltipFair ==
    SpecTooltip /\ WF_vars(Maintain) /\ WF_vars(Advance)

----------------------------------------------------------------------------
(* Converting chunk indices and positions, and asking for neighbors *)

MapSizes == [x : 0 .. MaxLg, y : 0 .. MaxLg]

\* the indices and the coordinates of the largest map
Indices == 0 .. Pow2(2 * MaxLg) - 1

Coords == 0 .. Pow2(MaxLg) - 1

TerrainInit ==
    /\ map_size_lg \in MapSizes
    /\ conv = <<>>
    /\ posi = 0
    /\ neighbor_out = NotCalledNeighbors
    /\ GateIdle
    /\ ExecIdle
    /\ LoadoutIdle
    /\ ItemIdle
    /\ TypeIdle
    /\ TooltipIdle

TerrainFresh == conv = <<>> /\ ~neighbor_out.called

\* a chunk index comes in
TakeIndex ==
    /\ TerrainFresh
    /\ \E idx \in Indices : conv' = <<IdxValue(idx)>>
    /\ UNCHANGED <<map_size_lg, posi, neighbor_out>>
    /\ UNCHANGED <<gate_vars, exec_vars, loadout_vars, item_vars,
                   type_vars, tooltip_vars>>

\* a chunk position comes in
TakePosition ==
    /\ TerrainFresh
    /\ \E x \in Coords, y \in Coords : conv' = <<PosValue(Vec2(x, y))>>
    /\ UNCHANGED <<map_size_lg, posi, neighbor_out>>
    /\ UNCHANGED <<gate_vars, exec_vars, loadout_vars, item_vars,
                   type_vars, tooltip_vars>>

\* uniform_idx_as_vec2 on an index, vec2_as_uniform_idx on a position
Convert ==
    /\ Len(conv) \in {1, 2}
    /\ conv' = Append(conv, Converted(map_size_lg, conv[Len(conv)]))
    /\ UNCHANGED <<map_size_lg, posi, neighbor_out>>
    /\ UNCHANGED <<gate_vars, exec_vars, loadout_vars, item_vars,
                   type_vars, tooltip_vars>>

\* neighbors(map_size_lg, posi), collected
CallNeighbors ==
    /\ TerrainFresh
    /\ \E i \in Indices :
        /\ posi' = i
        /\ neighbor_out' =
               [called |-> TRUE, value |-> Neighbors(map_size_lg, i)]
    /\ UNCHANGED <<map_size_lg, conv>>
    /\ UNCHANGED <<gate_vars, exec_vars, loadout_vars, item_vars,
                   type_vars, tooltip_vars>>

TerrainNext == TakeIndex \/ TakePosition \/ Convert \/ CallNeighbors

SpecTerrain == TerrainInit /\ [][TerrainNext]_vars

----------------------------------------------------------------------------
(* The gate's properties *)

OnGround == data.physics.on_ground
Humanoid == IsHumanoid(data.body)
SpeedSq == MagnitudeSquared(data.vel)
Called == paid # "none"

\* C1: for an energy-gated variant requirements_paid either returns true
\* with the energy decreased by exactly energy_cost, or returns false with
\* the energy unchanged; there is no other outcome.
C1_DebitOrUnchanged ==
    (Called /\ ability.kind \in EnergyGated) =>
        \/ /\ paid = "true"
           /\ energy.maximum = energy_before.maximum
           /\ energy.current = energy_before.current - ability.energy_cost
        \/ paid = "false" /\ energy = energy_before

\* C2: for Roll requirements_paid returns false and leaves the energy
\* unchanged whenever on_ground is false, or the body is not humanoid, or
\* the squared horizontal speed is <= 0.5, whatever the energy is.
C2_RollRefused ==
    (Called /\ ability.kind = "Roll"
        /\ (~OnGround \/ ~Humanoid \/ SpeedSq <= 2)) =>
        paid = "false" /\ energy = energy_before

\* a roll refused in the air although the energy could pay for it
C2_Witness ==
    /\ Called
    /\ ability.kind = "Roll"
    /\ ~OnGround /\ Humanoid /\ SpeedSq > 2
    /\ energy_before.current >= 220
    /\ paid = "false"

\* C3: Roll is admitted exactly when on_ground holds, the body is humanoid,
\* the squared horizontal speed is > 0.5 and taking 220 leaves the energy
\* in range; when it is admitted the energy decreases by exactly 220.
C3_RollAdmission ==
    (Called /\ ability.kind = "Roll") =>
        /\ paid \in {"true", "false"}
        /\ paid = "true" <=>
              /\ OnGround /\ Humanoid /\ SpeedSq > 2
              /\ energy_before.current >= 220
        /\ paid = "true" =>
              /\ energy.current = energy_before.current - 220
              /\ energy.maximum = energy_before.maximum
        /\ paid = "false" => energy = energy_before

\* a roll admitted and paid
C3_Witness ==
    /\ Called
    /\ ability.kind = "Roll"
    /\ paid = "true"
    /\ energy_before.current = 221
    /\ energy.current = 1

\* C4: for BasicBlock, Boost and ComboMelee requirements_paid returns true
\* for every physical snapshot and every energy, and leaves the energy
\* unchanged.
C4_NoCostAdmitted ==
    (Called /\ ability.kind \in {"BasicBlock", "Boost", "ComboMelee"}) =>
        paid = "true" /\ energy = energy_before

\* a combo admitted in the air with no energy at all
C4_Witness ==
    /\ Called
    /\ ability.kind = "ComboMelee"
    /\ ~OnGround
    /\ energy_before.current = 0
    /\ paid = "true"

----------------------------------------------------------------------------
(* The compiler's and the execution's properties *)

Compiled == status \in {"running", "terminal", "aborted"}
TickStep == status = "running" /\ status' = "running"

\* C5: compiling is total: for every entry of every variant, SpinMelee with
\* num_spins = 0 and ComboMelee with an empty stage list included, it
\* returns a character state of the entry's variant and never panics.
C5_CompileTotal ==
    /\ status # "panic"
    /\ status # "select" => character.kind = ability.kind

Rank(section) ==
    CASE section = StageBuildup -> 0
      [] section = StageCharge -> 1
      [] section = StageAction -> 2
      [] section = StageRecovery -> 3

\* C6: over the ticks of a timed state the stage section never moves
\* backwards (Buildup, then Action, then Recovery), and a stage is never
\* started again; the only exceptions are the combo's chaining from
\* Recovery to the Buildup of its next stage and the spin's repetition of
\* Action.
C6_StageOrder ==
    [][(TickStep /\ character.kind \in Timed) =>
        /\ Rank(Sec(character')) < Rank(Sec(character)) =>
              /\ character.kind = "ComboMelee"
              /\ Sec(character) = StageRecovery
              /\ Sec(character') = StageBuildup
              /\ character'.stage = character.stage + 1
        /\ (Sec(character') = Sec(character)
              /\ (Tim(character') < Tim(character)
                    \/ (Exh(character) /\ ~Exh(character')))) =>
              /\ character.kind = "SpinMelee"
              /\ Sec(character) = StageAction]_vars

\* a combo in the Recovery of its second stage: it went forward, chained
\* back to Buildup and went forward again
C6_Witness ==
    /\ status = "running"
    /\ character.kind = "ComboMelee"
    /\ character.stage = 2
    /\ Sec(character) = StageRecovery
    /\ effects = 2

InfiniteOrHeld(a) ==
    \/ a.kind = "SpinMelee" /\ a.is_infinite
    \/ a.kind = "DashMelee" /\ a.infinite_charge
    \/ a.kind = "BasicRanged" /\ a.holdable

BoundedTimed ==
    Compiled /\ character.kind \in Timed /\ ~InfiniteOrHeld(ability)

C9_StageWithinCount ==
    (Compiled /\ character.kind = "ComboMelee") =>
        /\ character.static_data.num_stages = Len(ability.stage_data)
        /\ character.stage <= character.static_data.num_stages

\* C10: for a spin with is_infinite = false, spins_remaining counts the
\* rotations still to come: in the k-th execution of the Action loop it is
\* num_spins - k, so it is zero in the num_spins-th, and Recovery is reached
\* after exactly num_spins executions with the hit fired num_spins times.
C10_SpinCount ==
    (Compiled /\ character.kind = "SpinMelee" /\ ~ability.is_infinite) =>
        /\ Sec(character) = StageAction =>
              /\ character.spins_remaining = ability.num_spins - loops
              /\ effects <= ability.num_spins
        /\ Sec(character) = StageRecovery =>
              /\ character.spins_remaining = 0
              /\ loops = ability.num_spins
              /\ effects = ability.num_spins

----------------------------------------------------------------------------
(* The compiled state's properties *)

\* CharacterState::from has returned a state
Built == compiled_state.kind \notin {"None", "Panic"}

\* C11 as stated: for every timed variant (melee, ranged, charged-ranged,
\* dash, leap, spin, shockwave, combo) the compiled state carries a
\* StageSection equal to Buildup and exhausted = false; only the stateless
\* variants have no stage field.
C11_AllTimedBuildup ==
    Built =>
        /\ compiled_state.kind \in Timed =>
              /\ "stage_section" \in DOMAIN compiled_state
              /\ compiled_state.stage_section = "Buildup"
              /\ "exhausted" \in DOMAIN compiled_state
              /\ compiled_state.exhausted = FALSE
        /\ compiled_state.kind \notin Timed =>
              "stage_section" \notin DOMAIN compiled_state

\* C11 as amended: the compiled state of DashMelee, SpinMelee and ComboMelee
\* carries a StageSection equal to Buildup; the compiled state of every
\* timed variant but ComboMelee carries exhausted = false, and ComboMelee's
\* has no exhausted field; BasicMelee, BasicRanged, ChargedRanged, LeapMelee
\* and GroundShockwave, like the stateless variants, have no stage field.
C11_StagedBuildup ==
    Built =>
        /\ compiled_state.kind = ability.kind
        /\ IF compiled_state.kind \in {"DashMelee", "SpinMelee", "ComboMelee"}
           THEN /\ "stage_section" \in DOMAIN compiled_state
                /\ compiled_state.stage_section = "Buildup"
           ELSE "stage_section" \notin DOMAIN compiled_state
        /\ IF compiled_state.kind \in Timed \ {"ComboMelee"}
           THEN /\ "exhausted" \in DOMAIN compiled_state
                /\ compiled_state.exhausted = FALSE
           ELSE "exhausted" \notin DOMAIN compiled_state

\* a basic melee just compiled: not exhausted, and without a stage field
C11_Witness ==
    /\ status = "running"
    /\ character = compiled_state
    /\ compiled_state.kind = "BasicMelee"
    /\ compiled_state.exhausted = FALSE
    /\ "stage_section" \notin DOMAIN compiled_state

\* the fields of a character state that record progress: timers, flags,
\* counters and the stage section
BoolProgress ==
    {"exhausted", "end_charge", "next_stage", "was_wielded", "initialize"}

ProgressFields ==
    BoolProgress
        \cup {"timer", "prepare_timer", "charge_timer", "remaining_duration",
              "combo", "stage", "spins_remaining", "stage_section"}

\* the zero / default value of a progress field's type
ZeroValue(f) == IF f \in BoolProgress THEN FALSE ELSE 0

\* C12 as stated: in the compiled state of every variant every progress
\* field has its type's zero/default value (zero duration, false, 0); the
\* only exceptions are Roll's remaining duration, the combo's stage counter,
\* the spin's remaining-spins counter and the StageSection.
C12_ProgressDefault ==
    Built =>
        \A f \in ProgressFields \cap DOMAIN compiled_state :
            \/ f \in {"remaining_duration", "stage", "spins_remaining",
                      "stage_section"}
            \/ compiled_state[f] = ZeroValue(f)

\* C12 as amended: the same, with one more exception: the leap's initialize
\* flag, which is compiled as true.
C12_ProgressDefaultButLeap ==
    Built =>
        /\ \A f \in ProgressFields \cap DOMAIN compiled_state :
              \/ f \in {"remaining_duration", "stage", "spins_remaining",
                        "stage_section"}
              \/ f = "initialize" /\ compiled_state.kind = "LeapMelee"
              \/ compiled_state[f] = ZeroValue(f)
        /\ compiled_state.kind = "LeapMelee" =>
              compiled_state.initialize = TRUE

\* a leap just compiled: initialize is set, exhausted is not
C12_Witness ==
    /\ status = "running"
    /\ character = compiled_state
    /\ compiled_state.kind = "LeapMelee"
    /\ compiled_state.initialize
    /\ ~compiled_state.exhausted

\* C13: compiling a SpinMelee entry sets spins_remaining to num_spins - 1
\* for every configured num_spins, and static_data.num_spins keeps the
\* configured value.
C13_SpinsRemaining ==
    (status # "select" /\ ability.kind = "SpinMelee") =>
        /\ compiled_state.kind = "SpinMelee"
        /\ compiled_state.spins_remaining = ability.num_spins - 1
        /\ compiled_state.static_data.num_spins = ability.num_spins

\* C14: compiling a ComboMelee entry yields stage = 1, combo = 0,
\* next_stage = false, a zero timer, num_stages equal to the length of the
\* entry's stage_data, and stage_data itself copied unchanged.
C14_ComboCompiled ==
    (status # "select" /\ ability.kind = "ComboMelee") =>
        /\ compiled_state.kind = "ComboMelee"
        /\ compiled_state.stage = 1
        /\ compiled_state.combo = 0
        /\ compiled_state.next_stage = FALSE
        /\ compiled_state.timer = 0
        /\ compiled_state.static_data.num_stages = Len(ability.stage_data)
        /\ compiled_state.static_data.stage_data = ability.stage_data

\* a combo of three stages just compiled
C14_Witness ==
    /\ status = "running"
    /\ character = compiled_state
    /\ compiled_state.kind = "ComboMelee"
    /\ Len(ability.stage_data) = 3
    /\ compiled_state.static_data.num_stages = 3
    /\ compiled_state.stage = 1

\* C15: compiling a Roll entry always yields remaining_duration = 500 ms
\* and was_wielded = false; no input enters the result, so any two
\* compilations of Roll give this same state.
C15_RollCompiled ==
    (status # "select" /\ ability.kind = "Roll") =>
        compiled_state =
            [kind |-> "Roll", remaining_duration |-> 500,
             was_wielded |-> FALSE]

\* a roll just compiled
C15_Witness ==
    /\ status = "running"
    /\ ability.kind = "Roll"
    /\ compiled_state.kind = "Roll"
    /\ compiled_state.remaining_duration = 500

\* C16: every static parameter held by the compiled state equals the
\* same-named field of the catalog entry, for every variant; the only
\* transformed parameters are the combo's speed_increase (stored as
\* 1 - configured) and max_speed_increase (stored as configured - 1).
\* (The combo's num_stages, which the compiler derives from stage_data, is
\* the one static parameter that has no same-named entry field.)
C16_StaticCopied ==
    Built =>
        /\ compiled_state.kind = ability.kind
        /\ DOMAIN Static(compiled_state)
                \ (DOMAIN ability \cup ProgressFields) \subseteq {"num_stages"}
        /\ \A f \in (DOMAIN Static(compiled_state) \cap DOMAIN ability)
                        \ {"kind"} :
              Static(compiled_state)[f] =
                  IF ability.kind = "ComboMelee" /\ f = "speed_increase"
                  THEN 1 - ability[f]
                  ELSE IF ability.kind = "ComboMelee"
                          /\ f = "max_speed_increase"
                  THEN ability[f] - 1
                  ELSE ability[f]

\* a combo just compiled, with its two speed parameters transformed and
\* its energy parameters copied
C16_Witness ==
    /\ status = "running"
    /\ character = compiled_state
    /\ compiled_state.kind = "ComboMelee"
    /\ ability.speed_increase = 3
    /\ compiled_state.static_data.speed_increase = -2
    /\ ability.max_speed_increase = 5
    /\ compiled_state.static_data.max_speed_increase = 4
    /\ compiled_state.static_data.max_energy_gain = 3

----------------------------------------------------------------------------
(* The loadout's and the item configuration's properties *)

\* the armor slots in the order of their declaration
ArmorOrder ==
    <<"shoulder", "chest", "belt", "hand", "pants", "foot", "back", "ring",
      "neck", "head", "tabard">>

\* the entries of what get_armor returned are the armor slots, in order
InArmorOrder ==
    \A i \in DOMAIN armor.value :
        /\ i <= Len(ArmorOrder)
        /\ armor.value[i] = loadout[ArmorOrder[i]]

\* no entry is a weapon configuration, the lantern or the glider
NoOtherSlot ==
    \A i \in DOMAIN armor.value :
        armor.value[i].kind \notin {"ItemConfig", "Lantern", "Glider"}

\* C18 as stated: get_armor returns the armor slots in one fixed order, the
\* same on every call and for every loadout, and the sequence has exactly
\* nine entries; the weapon slots, the lantern and the glider are never part
\* of it.
C18_NineArmorSlots ==
    armor.calls > 0 =>
        /\ Len(armor.value) = 9
        /\ InArmorOrder
        /\ NoOtherSlot

\* C18 as amended: the same with exactly eleven entries: shoulder, chest,
\* belt, hand, pants, foot, back, ring, neck, head, tabard, in this order.
C18_ElevenArmorSlots ==
    armor.calls > 0 =>
        /\ Len(armor.value) = 11
        /\ InArmorOrder
        /\ NoOtherSlot

\* get_armor called twice on a loadout with a lantern and a tabard
C18_Witness ==
    /\ armor.calls = 2
    /\ loadout.lantern = LanternItem
    /\ loadout.tabard = ArmorItem(Invincible)
    /\ armor.value[11] = loadout.tabard
    /\ armor.value[1] = None

\* the armor pieces that are equipped
EquippedArmor == {slot \in ArmorSlots : loadout[slot].kind = "Armor"}

AnyInvincible ==
    \E slot \in EquippedArmor : loadout[slot].protection.kind = "Invincible"

RECURSIVE SumNormal(_)
SumNormal(slots) ==
    IF slots = {} THEN 0
    ELSE LET slot == CHOOSE x \in slots : TRUE
         IN  loadout[slot].protection.value + SumNormal(slots \ {slot})

\* C19: get_damage_reduction returns 1.0 when at least one equipped armor
\* piece has Invincible protection, whatever the other pieces are; otherwise
\* it returns total/(60+|total|), total being the sum of the Normal
\* protections of the equipped armor pieces (0 for an empty loadout); every
\* call on the same slot contents gives this value, and after a slot change
\* the value is that of the new contents.
C19_DamageReduction ==
    reduction.calls > 0 =>
        /\ reduction.value.den # 0
        /\ IF AnyInvincible
           THEN reduction.value.num = reduction.value.den
           ELSE LET total == SumNormal(EquippedArmor)
                    bound == IF total < 0 THEN 60 - total ELSE 60 + total
                IN  reduction.value.num * bound = total * reduction.value.den

\* called twice with an Invincible chest and a Normal head: 1.0
C19_Witness ==
    /\ reduction.calls = 2
    /\ loadout.chest = ArmorItem(Invincible)
    /\ loadout.head = ArmorItem(Normal(2))
    /\ reduction.value = [num |-> 1, den |-> 1]

AbilitySlots == <<"ability1", "ability2", "ability3", "ability4", "ability5">>

\* C20: building an ItemConfig from a tool item puts the tool's declared
\* abilities, in their declared order, into ability1..ability5: the i-th
\* declared ability is in slot i, the slots beyond the number of declared
\* abilities are empty, the abilities after the fifth are dropped, and
\* block_ability is always BasicBlock and dodge_ability always Roll.
C20_AbilitiesDrained ==
    (item_config # None /\ item.kind = "Tool") =>
        /\ item_config.kind = "ItemConfig"
        /\ DOMAIN item_config =
              {"kind", "item", "ability1", "ability2", "ability3",
               "ability4", "ability5", "block_ability", "dodge_ability"}
        /\ item_config.item = item
        /\ \A i \in 1 .. 5 :
              item_config[AbilitySlots[i]] =
                  IF i <= Len(item.abilities) THEN item.abilities[i]
                  ELSE [kind |-> "None"]
        /\ item_config.block_ability = [kind |-> "BasicBlock"]
        /\ item_config.dodge_ability = [kind |-> "Roll"]

\* the configuration of a tool that declares six abilities, the fifth and
\* the sixth different
C20_Witness ==
    /\ item.kind = "Tool"
    /\ Len(item.abilities) = 6
    /\ item.abilities[5] # item.abilities[6]
    /\ item_config.kind = "ItemConfig"
    /\ item_config.ability5 = item.abilities[5]

\* C21: building an ItemConfig from an item whose kind is not a tool never
\* returns a config: it ends in the fatal error outcome, and no ItemConfig
\* with empty or default slots is produced for such an item.
C21_NonToolFatal ==
    (item_config # None /\ item.kind # "Tool") =>
        /\ item_config = [kind |-> "Panic"]
        /\ "ability1" \notin DOMAIN item_config

\* the conversion of an armor piece has ended in the fatal error
C21_Witness ==
    /\ item = ArmorItem(Invincible)
    /\ item_config.kind = "Panic"

\* C22: for every energy-gated variant and every configured energy_cost of
\* the u32 range, requirements_paid never leaves the energy higher than it
\* was before the call: the amount passed to try_change_by,
\* -(energy_cost as i32), is always <= 0 and minus the configured cost, so
\* the energy changes by 0 or by minus the configured cost.
C22_NeverCredited ==
    (Called /\ ability.kind \in EnergyGated) =>
        /\ energy.current <= energy_before.current
        /\ energy.current - energy_before.current
              \in {0, -ability.energy_cost}

----------------------------------------------------------------------------
(* The classification's properties *)

Classified == ability_type # None

\* C23: the classification maps both the ChargedRanged state and the
\* GroundShockwave state to the tag ChargedRanged, so the tag
\* GroundShockwave is produced for no state; every other listed state maps
\* to the tag of its own kind (the combo's with its stage section and
\* stage), and every unlisted state (Roll, idle and the like) maps to
\* BasicMelee.
C23_Classification ==
    Classified =>
        /\ ability_type.kind # "GroundShockwave"
        /\ character.kind \in {"ChargedRanged", "GroundShockwave"} =>
              ability_type = [kind |-> "ChargedRanged"]
        /\ character.kind \in
              {"BasicMelee", "BasicRanged", "Boost", "DashMelee",
               "BasicBlock", "LeapMelee", "SpinMelee"} =>
              ability_type = [kind |-> character.kind]
        /\ character.kind = "ComboMelee" =>
              ability_type =
                  [kind |-> "ComboMelee",
                   stage_section |-> character.stage_section,
                   stage |-> character.stage]
        /\ character.kind \in
              {"Roll", "Idle", "Climb", "Sit", "Glide", "Wielding",
               "Equipping"} =>
              ability_type = [kind |-> "BasicMelee"]

\* a ground shockwave in its Action stage classified as ChargedRanged
C23_Witness ==
    /\ character.kind = "GroundShockwave"
    /\ Sec(character) = StageAction
    /\ ability_type = [kind |-> "ChargedRanged"]

----------------------------------------------------------------------------
(* The tooltip manager's properties *)

\* a step after which showing(r) is true and before which it was not
BecomesShown(r) ==
    /\ ~ManagerShowing(manager, r)
    /\ ManagerShowing(manager', r)

\* C24 as stated: showing(region) becomes true only when the reports have
\* named that region for at least hover_dur, every report of another region
\* and every maintain without a report starting the count afresh.
C24_ShownAfterReportedHover ==
    [][\A r \in Regions :
          BecomesShown(r) =>
              /\ reported'.aabr = r
              /\ reported'.elapsed >= manager.hover_dur]_vars

\* C24: showing(region) becomes true only when maintain has found that
\* region in the latest report before it, call after call, for at least
\* hover_dur; maintain finding another region in the latest report, or no
\* report, starts the count afresh.
C24_ShownAfterSeenHover ==
    [][\A r \in Regions :
          BecomesShown(r) =>
              /\ seen'.aabr = r
              /\ seen'.elapsed >= manager.hover_dur]_vars

\* a tooltip shown for a region that maintain has seen hovered for exactly
\* a positive hover_dur, while the reports named another region in between
C24_Witness ==
    /\ manager.state.kind = "Showing"
    /\ manager.hover_dur > 0
    /\ seen = [elapsed |-> manager.hover_dur, aabr |-> manager.state.show.aabr]
    /\ reported.elapsed < seen.elapsed

\* no report will come any more
NoFurtherReports == reports_left = 0

\* a fade goes on over the step: the old tooltip stays shown and the fade
\* start is not moved
FadeKept ==
    (manager.state.kind = "Fading" /\ manager'.state.kind = "Fading") =>
        /\ manager'.state.show = manager.state.show
        /\ manager'.state.elapsed >= manager.state.elapsed
        /\ ManagerShowing(manager', manager.state.show.aabr)

\* maintain finds no report: Idle and Start go to Idle
NoReportToIdle ==
    (manager.update = None /\ manager.state.kind \in {"Idle", "Start"}) =>
        manager'.state = StateIdle

\* the fade is over when maintain runs
FadeElapsed ==
    /\ manager.state.kind = "Fading"
    /\ manager.state.elapsed >= manager.fade_dur

\* how long the region of the report maintain takes has been the pending
\* hover of the fade
PendingLasted ==
    LET hover == manager.state.hover IN
    IF hover # None /\ hover.value.aabr = manager.update.value.aabr
    THEN hover.value.elapsed
    ELSE 0

\* C25 as stated: a maintain with no report takes Idle and Start to Idle
\* and Showing to Fading; through a fade the old tooltip stays shown and the
\* fade start is never reset; once fade_dur has elapsed maintain leaves
\* Fading, to Idle when nothing is hovered and to Start with the pending
\* hover otherwise; with no further reports the manager eventually reaches
\* Idle.
C25_FadeAsStated ==
    /\ [][/\ FadeKept
          /\ Maintain =>
               /\ NoReportToIdle
               /\ (manager.update = None /\ manager.state.kind = "Showing")
                     => manager'.state.kind = "Fading"
               /\ FadeElapsed =>
                     /\ manager'.state.kind # "Fading"
                     /\ manager.update = None => manager'.state = StateIdle
                     /\ manager.update # None =>
                           /\ manager'.state.kind = "Start"
                           /\ manager'.state.hover.aabr =
                                 manager.update.value.aabr]_vars
    /\ NoFurtherReports ~> (manager.state = StateIdle)

\* C25: a maintain with no report takes Idle and Start to Idle and Showing
\* to Fading, or on to Idle in the same call when fade_dur is zero; through
\* a fade the old tooltip stays shown and the fade start is never reset;
\* once fade_dur has elapsed maintain leaves Fading, to Idle when nothing is
\* hovered, to Showing the pending hover when that hover has lasted
\* hover_dur, and to Start with the pending hover otherwise; with no
\* further reports the manager eventually reaches Idle.
C25_FadeOut ==
    /\ [][/\ FadeKept
          /\ Maintain =>
               /\ NoReportToIdle
               /\ (manager.update = None /\ manager.state.kind = "Showing")
                     => manager'.state =
                           IF manager.fade_dur = 0
                           THEN StateIdle
                           ELSE StateFading(0, manager.state.show, None)
               /\ FadeElapsed =>
                     /\ manager'.state.kind # "Fading"
                     /\ manager.update = None => manager'.state = StateIdle
                     /\ manager.update # None =>
                           IF PendingLasted >= manager.hover_dur
                           THEN /\ manager'.state.kind = "Showing"
                                /\ manager'.state.show.aabr =
                                      manager.update.value.aabr
                           ELSE manager'.state =
                                   StateStart(
                                       [elapsed |-> PendingLasted,
                                        aabr |->
                                            manager.update.value.aabr])]_vars
    /\ NoFurtherReports ~> (manager.state = StateIdle)

\* a fade that has lasted fade_dur, with a pending hover that has lasted
\* hover_dur and is reported again: the next maintain shows it
C25_Witness ==
    /\ FadeElapsed
    /\ manager.fade_dur > 0
    /\ manager.update # None
    /\ manager.state.hover # None
    /\ manager.hover_dur > 0
    /\ PendingLasted >= manager.hover_dur

----------------------------------------------------------------------------
(* The terrain helpers' properties *)

\* the map's width and height in chunks
Width == 2 ^ map_size_lg.x

Height == 2 ^ map_size_lg.y

\* a tagged value inside the map
InMap(v) ==
    IF v.kind = "idx"
    THEN v.idx < Width * Height
    ELSE v.pos.x < Width /\ v.pos.y < Height

\* C26: for every map size, an index inside the map converted to a
\* position and back is the same index, and an in-bounds position converted
\* to an index and back is the same position.
C26_RoundTrip ==
    (Len(conv) = 3 /\ InMap(conv[1])) => conv[3] = conv[1]

\* an in-bounds position off both axes on a map wider than high, taken to
\* its index and back
C26_Witness ==
    /\ Len(conv) = 3
    /\ InMap(conv[1])
    /\ conv[1].kind = "pos"
    /\ conv[1].pos.x > 1
    /\ conv[1].pos.y > 0
    /\ Width > Height
    /\ conv[2].idx = conv[1].pos.y * Width + conv[1].pos.x

\* neighbors was called for a chunk index inside the map
NeighborsAsked == neighbor_out.called /\ posi < Width * Height

\* the column and the row of posi
PosiX == posi % Width

PosiY == posi \div Width

Dist(a, b) == IF a >= b THEN a - b ELSE b - a

\* the indices of the cells of the map at Chebyshev distance 1 from posi
Adjacent ==
    {y * Width + x : <<x, y>> \in
        {c \in (0 .. Width - 1) \X (0 .. Height - 1) :
            /\ Dist(c[1], PosiX) <= 1
            /\ Dist(c[2], PosiY) <= 1
            /\ c # <<PosiX, PosiY>>}}

\* what neighbors yielded, as a set
Yielded == {neighbor_out.value[i] : i \in DOMAIN neighbor_out.value}

\* exactly the adjacent cells, not posi, none outside the map, ascending
ExactAscending ==
    /\ Yielded = Adjacent
    /\ posi \notin Yielded
    /\ \A n \in Yielded : n < Width * Height
    /\ \A i, j \in DOMAIN neighbor_out.value :
          i < j => neighbor_out.value[i] < neighbor_out.value[j]

\* on how many of the two axes posi lies on the border of the map
BorderAxes ==
    (IF PosiX \in {0, Width - 1} THEN 1 ELSE 0)
        + (IF PosiY \in {0, Height - 1} THEN 1 ELSE 0)

\* 8 for an interior cell, 5 on an edge, 3 in a corner
CountByPlace ==
    Len(neighbor_out.value) =
        CASE BorderAxes = 0 -> 8
          [] BorderAxes = 1 -> 5
          [] BorderAxes = 2 -> 3

\* C27 as stated: for every map size and every chunk index inside the map,
\* neighbors yields exactly the cells of the map at Chebyshev distance 1,
\* never posi and never a cell outside the map, in strictly ascending
\* order: 8 for an interior cell, 5 on an edge, 3 in a corner.
C27_NeighborsAnyMap ==
    NeighborsAsked => (ExactAscending /\ CountByPlace)

\* C27: for every map size neighbors yields exactly the cells of the map at
\* Chebyshev distance 1, never posi and never a cell outside the map, in
\* strictly ascending order; on a map at least two chunks wide and two
\* chunks high these are 8 for an interior cell, 5 on an edge, 3 in a
\* corner.
C27_Neighbors ==
    NeighborsAsked =>
        /\ ExactAscending
        /\ (Width >= 2 /\ Height >= 2) => CountByPlace

\* an interior cell with its eight neighbors
C27_Witness ==
    /\ NeighborsAsked
    /\ Width >= 2
    /\ Height >= 2
    /\ BorderAxes = 0
    /\ Len(neighbor_out.value) = 8

=============================================================================
